---------------------------- MODULE Spec2Model ----------------------------
(***************************************************************************)
(* KRPano tile acquisition (pix360_krpano/modules.py): URL classification,  *)
(* schema normalisation, zoom probing, grid download, six-face download and *)
(* the hand-over to the stitchers, for one conversion.                      *)
(*                                                                          *)
(* Strings are sequences of one-character strings, so that the regular      *)
(* expressions, str.split, str.rstrip, slicing and %-formatting of the      *)
(* source are computed character by character.                              *)
(***************************************************************************)
EXTENDS Integers, Sequences, FiniteSets, TLC

(***************************************************************************)
(* Bounds of the model (not program constants).                             *)
(***************************************************************************)
MaxRows == 2

MaxCols == 3

MaxZoom == 2

MaxFaults == 1

(***************************************************************************)
(* Program constants.                                                       *)
(***************************************************************************)
NumFaces == 6

HTTP_OK == 200

\* HTTPRequest(...).open() raised instead of answering (timeout, reset)
NoResponse == 0

CERTAINTY_UNSUPPORTED == "UNSUPPORTED"
CERTAINTY_POSSIBLE == "POSSIBLE"
CERTAINTY_PROBABLE == "PROBABLE"

(***************************************************************************)
(* Characters and strings.                                                  *)
(***************************************************************************)
DigitChars == <<"0","1","2","3","4","5","6","7","8","9">>

IsDigit(ch) == \E k \in 1..10 : DigitChars[k] = ch

Max(a, b) == IF a >= b THEN a ELSE b

\* Python s[a:b] with 0 <= a, b <= len(s) already resolved; 1-based here
Slice(s, a, b) == IF a > b THEN <<>> ELSE SubSeq(s, a, b)

\* str(n) for n >= 0
RECURSIVE IntToStr(_)
IntToStr(n) ==
    IF n < 10 THEN <<DigitChars[n + 1]>>
    ELSE IntToStr(n \div 10) \o <<DigitChars[(n % 10) + 1]>>

\* s.rstrip("0123456789")
RECURSIVE RStripDigits(_)
RStripDigits(s) ==
    IF s # <<>> /\ IsDigit(s[Len(s)]) THEN RStripDigits(SubSeq(s, 1, Len(s) - 1))
    ELSE s

\* s.split("/")
RECURSIVE SplitFrom(_, _, _)
SplitFrom(s, k, cur) ==
    IF k > Len(s) THEN <<cur>>
    ELSE IF s[k] = "/" THEN <<cur>> \o SplitFrom(s, k + 1, <<>>)
    ELSE SplitFrom(s, k + 1, Append(cur, s[k]))

Split(s) == SplitFrom(s, 1, <<>>)

\* "/".join(parts)
RECURSIVE Join(_)
Join(parts) ==
    IF Len(parts) = 0 THEN <<>>
    ELSE IF Len(parts) = 1 THEN parts[1]
    ELSE parts[1] \o <<"/">> \o Join(Tail(parts))

\* first index >= k of s that holds "%", Len(s) + 1 when there is none
RECURSIVE NextPercent(_, _)
NextPercent(s, k) ==
    IF k <= Len(s) /\ s[k] # "%" THEN NextPercent(s, k + 1) ELSE k

\* schema % args: each %i takes the next integer of args; a format with more or
\* fewer conversions than arguments raises TypeError, as does a schema that is
\* not a string.  (ok, text): ok is FALSE when the expression raises.
\* (p, the place of the next "%", is bound as the element of a one-element
\* set, which computes it once)
RECURSIVE FormatFrom(_, _, _, _, _)
FormatFrom(s, k, args, a, acc) ==
    CHOOSE r \in {
        IF p > Len(s) THEN [ok |-> (a = Len(args) + 1), text |-> acc \o Slice(s, k, Len(s))]
        ELSE IF p + 1 <= Len(s) /\ s[p + 1] = "i" /\ a <= Len(args)
             THEN FormatFrom(s, p + 2, args, a + 1,
                             acc \o Slice(s, k, p - 1) \o IntToStr(args[a]))
        ELSE IF p + 1 <= Len(s) /\ s[p + 1] = "%"
             THEN FormatFrom(s, p + 2, args, a, acc \o Slice(s, k, p))
        ELSE [ok |-> FALSE, text |-> acc]
        : p \in {NextPercent(s, k)} } : TRUE

Format(schema, args) ==
    IF ~schema.valid THEN [ok |-> FALSE, text |-> <<>>]
    ELSE FormatFrom(schema.text, 1, args, 1, <<>>)

(***************************************************************************)
(* Regular expressions of KRPanoDownloader, as re.search computes them.     *)
(***************************************************************************)
\* first index >= k of s that holds no digit
RECURSIVE SkipDigits(_, _)
SkipDigits(s, k) ==
    IF k <= Len(s) /\ IsDigit(s[k]) THEN SkipDigits(s, k + 1) ELSE k

HasAt(s, k, lit) ==
    /\ k + Len(lit) - 1 <= Len(s)
    /\ \A j \in 1..Len(lit) : s[k + j - 1] = lit[j]

\* \d+/\d+/\d+_\d+\.jpg matched at index k
MatchFullAt(s, k) ==
    \E a \in {SkipDigits(s, k)} :
        /\ a > k /\ HasAt(s, a, <<"/">>)
        /\ \E b \in {SkipDigits(s, a + 1)} :
            /\ b > a + 1 /\ HasAt(s, b, <<"/">>)
            /\ \E c \in {SkipDigits(s, b + 1)} :
                /\ c > b + 1 /\ HasAt(s, c, <<"_">>)
                /\ \E d \in {SkipDigits(s, c + 1)} :
                    /\ d > c + 1 /\ HasAt(s, d, <<".","j","p","g">>)

\* REGEX_FULL[0]
SearchFull(s) == \E k \in 1..Len(s) : MatchFullAt(s, k)

FaceLetters == <<"f","r","b","l","u","d">>

FaceDigits == <<"0","1","2","3","4","5">>

\* REGEX_SIMPLE[0]: \_[frblud].jpg  (the dot is unescaped: any character)
SearchSimpleLetter(s) ==
    \E k \in 1..Len(s) :
        /\ k + 5 <= Len(s)
        /\ s[k] = "_"
        /\ \E j \in 1..Len(FaceLetters) : s[k + 1] = FaceLetters[j]
        /\ HasAt(s, k + 3, <<"j","p","g">>)

\* REGEX_SIMPLE[1]: ^\d.jpg
SearchSimpleDigit(s) ==
    /\ Len(s) >= 5
    /\ IsDigit(s[1])
    /\ HasAt(s, 3, <<"j","p","g">>)

(***************************************************************************)
(* KRPanoDownloader.REGEX_FULL, REGEX_SIMPLE and test_url.                  *)
(***************************************************************************)
NoKwargs == [has_tiles |-> FALSE, tiles |-> <<>>]

REGEX_FULL ==
    << [re |-> "full", certainty |-> CERTAINTY_PROBABLE, kwargs |-> NoKwargs] >>

REGEX_SIMPLE ==
    << [re |-> "letter", certainty |-> CERTAINTY_PROBABLE, kwargs |-> NoKwargs],
       [re |-> "digit", certainty |-> CERTAINTY_POSSIBLE,
        kwargs |-> [has_tiles |-> TRUE, tiles |-> FaceDigits]] >>

\* bool(re.search(regex, url))
ReSearch(re, s) ==
    CASE re = "full" -> SearchFull(s)
      [] re = "letter" -> SearchSimpleLetter(s)
      [] re = "digit" -> SearchSimpleDigit(s)

\* index of the first entry of the list whose regex matches, 0 when none does
FirstMatch(list, s) ==
    IF \E k \in 1..Len(list) : ReSearch(list[k].re, s)
    THEN CHOOSE k \in 1..Len(list) :
            /\ ReSearch(list[k].re, s)
            /\ \A j \in 1..(k - 1) : ~ReSearch(list[j].re, s)
    ELSE 0

Unsupported ==
    [re |-> "none", certainty |-> CERTAINTY_UNSUPPORTED, kwargs |-> NoKwargs]

\* test_url, lines 42-50: REGEX_FULL is searched first, then REGEX_SIMPLE
test_url(s) ==
    IF FirstMatch(REGEX_FULL, s) # 0
    THEN REGEX_FULL[FirstMatch(REGEX_FULL, s)].certainty
    ELSE IF FirstMatch(REGEX_SIMPLE, s) # 0
    THEN REGEX_SIMPLE[FirstMatch(REGEX_SIMPLE, s)].certainty
    ELSE CERTAINTY_UNSUPPORTED

RouteSimpleFirst(s) ==
    IF FirstMatch(REGEX_SIMPLE, s) # 0
    THEN [family |-> "simple", entry |-> REGEX_SIMPLE[FirstMatch(REGEX_SIMPLE, s)]]
    ELSE IF FirstMatch(REGEX_FULL, s) # 0
    THEN [family |-> "full", entry |-> REGEX_FULL[FirstMatch(REGEX_FULL, s)]]
    ELSE [family |-> "none", entry |-> Unsupported]

RouteSimpleFallback(s) ==
    IF FirstMatch(REGEX_FULL, s) # 0
    THEN [family |-> "full", entry |-> REGEX_FULL[FirstMatch(REGEX_FULL, s)]]
    ELSE IF FirstMatch(REGEX_SIMPLE, s) # 0
    THEN [family |-> "simple", entry |-> REGEX_SIMPLE[FirstMatch(REGEX_SIMPLE, s)]]
    ELSE [family |-> "simple", entry |-> REGEX_SIMPLE[1]]

\* make_tiles, lines 214-222: the export the URL is routed to and the matched
\* entry, whose kwargs are passed on
Route(s) ==
    IF FirstMatch(REGEX_FULL, s) # 0
    THEN [family |-> "full", entry |-> REGEX_FULL[FirstMatch(REGEX_FULL, s)]]
    ELSE IF FirstMatch(REGEX_SIMPLE, s) # 0
    THEN [family |-> "simple", entry |-> REGEX_SIMPLE[FirstMatch(REGEX_SIMPLE, s)]]
    ELSE [family |-> "none", entry |-> Unsupported]

(***************************************************************************)
(* url_normalize without its verification fetch (lines 92-99): the schema,  *)
(* or Python's False when an assertion or an index fails.                   *)
(***************************************************************************)
NoSchema == [valid |-> FALSE, text |-> <<>>]

\* the schema made of the parts of the URL
NormalizeParts(parts) ==
    LET n == Len(parts)
    IN  IF \E k \in 1..Len(parts[n]) : parts[n][k] = "_"
        THEN IF n >= 3
             THEN [valid |-> TRUE,
                   text |-> Join([k \in 1..n |->
                        IF k = n THEN <<"%","i","_","%","i",".","j","p","g">>
                        ELSE IF k = n - 1 THEN <<"%","i">>
                        ELSE IF k = n - 2 THEN RStripDigits(parts[k]) \o <<"%","i">>
                        ELSE parts[k]])]
             ELSE NoSchema
        ELSE NoSchema

\* (parts is bound as the element of a one-element set, which computes the
\* split once)
NormalizeText(u) ==
    CHOOSE r \in { NormalizeParts(parts) : parts \in {Split(u)} } : TRUE

\* export_simple, line 186: url[:-5] + i + url[-4:]
Sibling(u, ch) ==
    Slice(u, 1, Len(u) - 5) \o <<ch>> \o Slice(u, Max(Len(u) - 3, 1), Len(u))

ZoomArgsFaceOne(lv) == <<1, lv + 1, 0, 0>>

\* the arguments of the format in get_max_zoom (line 119) and export (line 151)
ZoomArgs(lv) == <<0, lv + 1, 0, 0>>

GridArgsSwapped(t, z, row, col) == <<t, z, col, row>>

GridArgs(t, z, row, col) == <<t, z, row, col>>

(***************************************************************************)
(* Inputs: the conversion URLs tried.                                       *)
(***************************************************************************)
URL_SCENARIO_A ==
    <<"h","t","t","p",":","/","/","x","/","0","0","1","/","0","_","0",".","j","p","g">>

URL_PYRAMID ==
    <<"h","t","t","p",":","/","/","x","/","0","/","0","/","0","_","0",".","j","p","g">>

URL_BOTH_DIGIT ==
    <<"1",".","j","p","g","/","1","/","2","/","3","_","4",".","j","p","g">>

URL_BOTH_LETTER ==
    <<"h","t","t","p",":","/","/","x","/","1","/","2","/","3","_","4",".","j","p","g",
      "_","f",".","j","p","g">>

URL_SIX_FACE ==
    <<"h","t","t","p",":","/","/","x","/","p","a","n","o","_","f",".","j","p","g">>

URL_DIGIT_FACE == <<"0",".","j","p","g">>

URL_OTHER == <<"h","t","t","p",":","/","/","x","/","a",".","p","n","g">>

URL_NO_TILE ==
    <<"h","t","t","p",":","/","/","x","/","1","/","2","/","3","_","4",".","j","p","g",
      "/","t">>

SeedURLs ==
    { URL_SCENARIO_A, URL_PYRAMID, URL_BOTH_DIGIT, URL_BOTH_LETTER, URL_SIX_FACE,
      URL_DIGIT_FACE, URL_OTHER, URL_NO_TILE }

Faces == 0..(NumFaces - 1)

(***************************************************************************)
(* The provider: which URLs answer 200.  A pyramid provider hosts, at every *)
(* zoom level of zooms, a rows x cols grid on the face focus (less one tile *)
(* when hole names one) and, when others holds, the single tile (0,0) on    *)
(* every other face.  A six-face provider hosts the sibling images of the   *)
(* conversion URL for the face positions not in missing.                    *)
(***************************************************************************)
NoHole == <<-1, -1>>

Rect(rows, cols) == (0..(rows - 1)) \X (0..(cols - 1))

Shapes == { <<0, 0>> } \cup ((1..MaxRows) \X (1..MaxCols))

NoFaces == 1..NumFaces

\* the faces tried as the face that holds the grid: the first (the one the
\* zoom probes use), an inner one and the last
FocusFaces == {0, 1, NumFaces - 1}

PyramidProviders ==
    { [zooms |-> z, focus |-> f, rows |-> sh[1], cols |-> sh[2], hole |-> h,
       others |-> o, seedOK |-> b, missing |-> NoFaces] :
        z \in SUBSET (0..MaxZoom), f \in FocusFaces, sh \in Shapes,
        h \in {NoHole} \cup Rect(MaxRows, MaxCols), o \in BOOLEAN, b \in BOOLEAN }

\* one record per provider: parameters that change nothing are fixed, and a
\* tile is missing only from the largest grid
Canonical(p) ==
    /\ p.hole # NoHole => p.rows = MaxRows /\ p.cols = MaxCols
    /\ p.rows = 0 => p.focus = 0
    /\ p.zooms = {} => p.rows = 0

SixFaceProviders ==
    { [zooms |-> {}, focus |-> 0, rows |-> 0, cols |-> 0, hole |-> NoHole,
       others |-> FALSE, seedOK |-> b, missing |-> m] :
        m \in SUBSET (1..NumFaces), b \in BOOLEAN }

Providers == { p \in PyramidProviders : Canonical(p) } \cup SixFaceProviders

\* the providers tried together with transport faults
IsPrefix(z) == \A k \in z : \A j \in 0..k : j \in z

FaultyProviders ==
    { p \in Providers :
        \/ /\ p.missing = NoFaces /\ p.focus = 0 /\ p.hole = NoHole
           /\ p.rows <= 2 /\ p.cols <= 2
           /\ IsPrefix(p.zooms) /\ Cardinality(p.zooms) <= 2
        \/ /\ p.zooms = {} /\ Cardinality(p.missing) <= 1 }

VARIABLES
    url,        \* conversion.url
    hosted,     \* the URLs the remote side answers with status 200
    faults,     \* transport faults the network may still inject
    pc,         \* the statement the conversion is at
    certainty,  \* what test_url returned
    schema,     \* url_normalize's result
    l,          \* get_max_zoom: l
    maxzoom,    \* export: maxzoom
    tile,       \* export: tile
    y,          \* export: y
    x,          \* export: x
    r_array,    \* export: r_array
    t_array,    \* export: t_array
    output,     \* export / export_simple: output
    tiles,      \* export_simple: tiles
    i,          \* export_simple: position of i in tiles
    log,        \* every HTTP request issued, in order, with its answer
    files,      \* the File records created, in order
    calls,      \* the stitcher calls made, in order
    stitched,   \* to_equirectangular: stitched
    err,        \* the exception that left the conversion, "none" if none
    outdir,     \* YouTubeConverter.download: the files in the temporary directory
    file,       \* YouTubeConverter: the File object held in file
    returned    \* the id of the File convert returned, 0 while it has not

vars ==
    << url, hosted, faults, pc, certainty, schema, l, maxzoom, tile, y, x,
       r_array, t_array, output, tiles, i, log, files, calls, stitched, err,
       outdir, file, returned >>

\* the state of YouTubeConverter, which KRPanoConverter never touches
ytvars == << outdir, file, returned >>

\* no File object is held
NoFile == [id |-> 0, is_result |-> FALSE]

\* the tiles the provider p hosts on face f (at each of its zoom levels)
Cells(p, f) ==
    IF f = p.focus
    THEN Rect(p.rows, p.cols) \ {p.hole}
    ELSE IF p.others THEN {<<0, 0>>} ELSE {}

\* the URLs the provider p answers with 200 when the conversion URL is u: the
\* URL itself, its pyramid under the schema of u, its six face images
HostedURLs(u, p) ==
    (IF p.seedOK THEN {u} ELSE {})
    \cup { Format(NormalizeText(u), <<c[1], c[2], c[3][1], c[3][2]>>).text :
            c \in { d \in Faces \X p.zooms \X Rect(MaxRows, MaxCols) :
                        d[3] \in Cells(p, d[1]) } }
    \cup { Sibling(u, FaceLetters[k]) : k \in (1..NumFaces) \ p.missing }
    \cup { Sibling(u, FaceDigits[k]) : k \in (1..NumFaces) \ p.missing }

Fetchable(u) == u \in hosted

\* what HTTPRequest(u).open() may do: answer with a status, or raise
Outcomes(u) ==
    {IF Fetchable(u) THEN HTTP_OK ELSE 404}
        \cup (IF faults > 0 THEN {NoResponse} ELSE {})

StoresOrHangs(code) == IF code = HTTP_OK THEN {TRUE} ELSE {}

\* what may follow an answer with status code in export and export_simple:
\* TRUE when the body is read and the File record created (lines 153-155,
\* 189-190), FALSE when res.read() or File.objects.create raises
Stores(code) ==
    IF code = HTTP_OK THEN {TRUE} \cup (IF faults > 0 THEN {FALSE} ELSE {})
    ELSE {FALSE}

\* a request as the log keeps it: the URL asked, the answer, the function that
\* asked, the values the URL was built from and the id of the File record made
\* from the answer (0 when none was made)
Request(u, code, by, args, made) ==
    [url |-> u, code |-> code, by |-> by, args |-> args, file |-> made]

\* the fault budget after an answer code that was stored or not
FaultsAfter(code, stored) ==
    IF code = NoResponse \/ (code = HTTP_OK /\ ~stored) THEN faults - 1 ELSE faults

\* File.objects.create(conversion=..., file=ContentFile(...), mime_type=...);
\* content is the request whose body was read, name the fields of the file name
NewFile(name) ==
    [id |-> Len(files) + 1, content |-> Len(log) + 1, name |-> name,
     mime_type |-> "image/jpeg"]

Init ==
    /\ url \in SeedURLs
    /\ \/ faults = 0
          /\ \E p \in Providers :
                /\ NormalizeText(url).valid \/ p.zooms = {}
                /\ hosted = HostedURLs(url, p)
       \/ faults \in 1..MaxFaults
          /\ \E p \in FaultyProviders :
                /\ NormalizeText(url).valid \/ p.zooms = {}
                /\ hosted = HostedURLs(url, p)
    /\ pc = "test_url"
    /\ certainty = "unset"
    /\ schema = NoSchema
    /\ l = 0
    /\ maxzoom = 0
    /\ tile = 0
    /\ y = 0
    /\ x = 0
    /\ r_array = <<>>
    /\ t_array = <<>>
    /\ output = <<>>
    /\ tiles = <<>>
    /\ i = 1
    /\ log = <<>>
    /\ files = <<>>
    /\ calls = <<>>
    /\ stitched = [from |-> "none", images |-> <<>>]
    /\ err = "none"
    /\ outdir = {}
    /\ file = NoFile
    /\ returned = 0

\* DownloaderModule.test_url, asked before the conversion is processed
TestUrl ==
    /\ pc = "test_url"
    /\ certainty' = test_url(url)
    /\ pc' = "make_tiles"
    /\ UNCHANGED ytvars
    /\ UNCHANGED << url, hosted, faults, schema, l, maxzoom, tile, y, x, r_array,
                    t_array, output, tiles, i, log, files, calls, stitched, err >>

DefaultTilesFive == <<"f","r","b","l","u">>

\* export_simple line 172: tiles="frblud"
DefaultTiles == FaceLetters

\* to_equirectangular line 234 -> make_tiles
MakeTiles ==
    /\ pc = "make_tiles"
    /\ \E r \in {Route(url)} :
        /\ pc' = CASE r.family = "full" -> "url_normalize"
                   [] r.family = "simple" -> "export_simple"
                   [] OTHER -> "raised"
        /\ err' = IF r.family = "none" THEN "ValueError" ELSE err
        /\ tiles' = IF r.family = "simple"
                    THEN (IF r.entry.kwargs.has_tiles THEN r.entry.kwargs.tiles
                          ELSE DefaultTiles)
                    ELSE tiles
    /\ UNCHANGED ytvars
    /\ UNCHANGED << url, hosted, faults, certainty, schema, l, maxzoom, tile, y, x,
                    r_array, t_array, output, i, log, files, calls, stitched >>

\* export_full line 198: url_normalize, with its verification fetch
UrlNormalize ==
    /\ pc = "url_normalize"
    /\ \E code \in Outcomes(url) :
        /\ log' = Append(log, Request(url, code, "url_normalize", <<>>, 0))
        /\ faults' = IF code = NoResponse THEN faults - 1 ELSE faults
        /\ schema' = IF code = HTTP_OK THEN NormalizeText(url) ELSE NoSchema
    /\ pc' = "get_max_zoom"
    /\ UNCHANGED ytvars
    /\ UNCHANGED << url, hosted, certainty, l, maxzoom, tile, y, x, r_array,
                    t_array, output, tiles, i, files, calls, stitched, err >>

ZoomReturnNext(lv) == lv + 1

\* get_max_zoom line 125: return l
ZoomReturn(lv) == lv

\* one pass of the loop of get_max_zoom
ZoomProbe ==
    /\ pc = "get_max_zoom"
    /\ \E fm \in {Format(schema, ZoomArgs(l))} :
        IF ~fm.ok
        THEN /\ maxzoom' = ZoomReturn(l)
             /\ pc' = "export"
             /\ UNCHANGED << l, log, faults >>
        ELSE \E code \in Outcomes(fm.text) :
             /\ log' = Append(log, Request(fm.text, code, "get_max_zoom", ZoomArgs(l), 0))
             /\ faults' = IF code = NoResponse THEN faults - 1 ELSE faults
             /\ IF code = HTTP_OK
                THEN /\ l' = l + 1
                     /\ UNCHANGED << maxzoom, pc >>
                ELSE /\ maxzoom' = ZoomReturn(l)
                     /\ pc' = "export"
                     /\ UNCHANGED l
    /\ UNCHANGED ytvars
    /\ UNCHANGED << url, hosted, certainty, schema, tile, y, x, r_array, t_array,
                    output, tiles, i, files, calls, stitched, err >>

LastFaceEarly(t) == t + 2 = NumFaces

\* export line 141: for tile in range(6) ends after tile 5
LastFace(t) == t + 1 = NumFaces

ColumnKept(col) == col

\* export line 147: x = 0 at the start of each row
FirstColumn(col) == 0

RowEndedUnplaced ==
    IF r_array = <<>>
    THEN /\ output' = Append(output, t_array)
         /\ tile' = tile + 1
         /\ t_array' = <<>>
         /\ y' = 0
         /\ x' = 0
         /\ r_array' = <<>>
         /\ pc' = IF tile + 1 = NumFaces THEN "multistitch" ELSE pc
    ELSE /\ t_array' = Append(t_array, <<>>)
         /\ y' = y + 1
         /\ x' = 0
         /\ r_array' = <<>>
         /\ UNCHANGED << output, tile, pc >>

\* export lines 158-168: the column loop was left; an empty row ends the face,
\* and the last face ends export
RowEnded ==
    IF r_array = <<>>
    THEN /\ output' = Append(output, t_array)
         /\ tile' = tile + 1
         /\ t_array' = <<>>
         /\ y' = 0
         /\ x' = FirstColumn(x)
         /\ r_array' = <<>>
         /\ pc' = IF LastFace(tile) THEN "multistitch" ELSE pc
    ELSE /\ t_array' = Append(t_array, r_array)
         /\ y' = y + 1
         /\ x' = FirstColumn(x)
         /\ r_array' = <<>>
         /\ UNCHANGED << output, tile, pc >>

GridProbeRaising ==
    /\ pc = "export"
    /\ \E fm \in {Format(schema, GridArgs(tile, maxzoom, y, x))} :
        IF ~fm.ok
        THEN /\ RowEnded
             /\ UNCHANGED << log, faults, files, err >>
        ELSE \E code \in Outcomes(fm.text) : \E stored \in Stores(code) :
             /\ log' = Append(log, Request(fm.text, code, "export",
                                           GridArgs(tile, maxzoom, y, x),
                                           IF stored THEN Len(files) + 1 ELSE 0))
             /\ faults' = FaultsAfter(code, stored)
             /\ IF stored
                THEN /\ files' = Append(files, NewFile(<<tile, maxzoom, y, x>>))
                     /\ r_array' = Append(r_array, Len(files) + 1)
                     /\ x' = x + 1
                     /\ UNCHANGED << output, tile, t_array, y, pc, err >>
                ELSE IF code = HTTP_OK
                THEN /\ pc' = "raised"
                     /\ err' = "StoreError"
                     /\ UNCHANGED << output, tile, t_array, y, x, r_array, files >>
                ELSE /\ RowEnded
                     /\ UNCHANGED << files, err >>
    /\ UNCHANGED ytvars
    /\ UNCHANGED << url, hosted, certainty, schema, l, maxzoom, tiles, i, calls,
                    stitched >>

\* one pass of the column loop of export, lines 149-160
GridProbe ==
    /\ pc = "export"
    /\ \E fm \in {Format(schema, GridArgs(tile, maxzoom, y, x))} :
        IF ~fm.ok
        THEN /\ RowEnded
             /\ UNCHANGED << log, faults, files >>
        ELSE \E code \in Outcomes(fm.text) : \E stored \in Stores(code) :
             /\ log' = Append(log, Request(fm.text, code, "export",
                                           GridArgs(tile, maxzoom, y, x),
                                           IF stored THEN Len(files) + 1 ELSE 0))
             /\ faults' = FaultsAfter(code, stored)
             /\ IF stored
                THEN /\ files' = Append(files, NewFile(<<tile, maxzoom, y, x>>))
                     /\ r_array' = Append(r_array, Len(files) + 1)
                     /\ x' = x + 1
                     /\ UNCHANGED << output, tile, t_array, y, pc >>
                ELSE /\ RowEnded
                     /\ UNCHANGED files
    /\ UNCHANGED ytvars
    /\ UNCHANGED << url, hosted, certainty, schema, l, maxzoom, tiles, i, calls,
                    stitched, err >>

\* export_full line 200: self.stitcher.multistitch(images)
Multistitch ==
    /\ pc = "multistitch"
    /\ calls' = Append(calls, [fn |-> "multistitch",
                               images |-> [from |-> "export", images |-> output],
                               rotation |-> <<>>, properties |-> "unread"])
    /\ \E returns \in BOOLEAN :
        IF returns
        THEN /\ stitched' = [from |-> "multistitch", images |-> output]
             /\ pc' = "cubemap"
             /\ UNCHANGED err
        ELSE /\ err' = "StitchError"
             /\ pc' = "raised"
             /\ UNCHANGED stitched
    /\ UNCHANGED ytvars
    /\ UNCHANGED << url, hosted, faults, certainty, schema, l, maxzoom, tile, y, x,
                    r_array, t_array, output, tiles, i, log, files >>

SimpleFetchSkipping ==
    /\ pc = "export_simple"
    /\ \E cur \in {Sibling(url, tiles[i])} :
        \E code \in Outcomes(cur) : \E stored \in Stores(code) :
        /\ log' = Append(log, Request(cur, code, "export_simple", <<tiles[i]>>,
                                      IF stored THEN Len(files) + 1 ELSE 0))
        /\ faults' = FaultsAfter(code, stored)
        /\ files' = IF stored THEN Append(files, NewFile(<<>>)) ELSE files
        /\ output' = IF stored THEN Append(output, Len(files) + 1) ELSE output
        /\ i' = i + 1
        /\ IF i = Len(tiles)
           THEN /\ stitched' = [from |-> "export_simple", images |-> output']
                /\ pc' = "cubemap"
           ELSE UNCHANGED << stitched, pc >>
        /\ UNCHANGED err
    /\ UNCHANGED ytvars
    /\ UNCHANGED << url, hosted, certainty, schema, l, maxzoom, tile, y, x,
                    r_array, t_array, tiles, calls >>

\* one pass of the loop of export_simple, lines 185-193
SimpleFetch ==
    /\ pc = "export_simple"
    /\ \E cur \in {Sibling(url, tiles[i])} :
        \E code \in Outcomes(cur) : \E stored \in Stores(code) :
        /\ log' = Append(log, Request(cur, code, "export_simple", <<tiles[i]>>,
                                      IF stored THEN Len(files) + 1 ELSE 0))
        /\ faults' = FaultsAfter(code, stored)
        /\ IF stored
           THEN /\ files' = Append(files, NewFile(<<>>))
                /\ output' = Append(output, Len(files) + 1)
                /\ i' = i + 1
                /\ IF i = Len(tiles)
                   THEN /\ stitched' = [from |-> "export_simple",
                                        images |-> Append(output, Len(files) + 1)]
                        /\ pc' = "cubemap"
                   ELSE UNCHANGED << stitched, pc >>
                /\ UNCHANGED err
           ELSE /\ err' = IF code = NoResponse THEN "TransportError"
                          ELSE IF code = HTTP_OK THEN "StoreError"
                          ELSE "AssertionError"
                /\ pc' = "raised"
                /\ UNCHANGED << files, output, i, stitched >>
    /\ UNCHANGED ytvars
    /\ UNCHANGED << url, hosted, certainty, schema, l, maxzoom, tile, y, x,
                    r_array, t_array, tiles, calls >>

\* conversion.properties as to_equirectangular reads it (lines 237-240)
PropertiesChoices == { "None", "empty", "rotation", "other" }

GivenRotation == <<90, 0, 0>>

RotationIgnored(props) == <<0, 0, 0>>

\* lines 237-240: properties.get("rotation", (0,0,0)) when properties is truthy
Rotation(props) == IF props = "rotation" THEN GivenRotation ELSE <<0, 0, 0>>

\* to_equirectangular lines 237-243
CubemapToEquirectangular ==
    /\ pc = "cubemap"
    /\ \E props \in PropertiesChoices :
        calls' = Append(calls, [fn |-> "cubemap_to_equirectangular",
                                images |-> stitched,
                                rotation |-> Rotation(props), properties |-> props])
    /\ \E returns \in BOOLEAN :
        IF returns
        THEN pc' = "done" /\ UNCHANGED err
        ELSE pc' = "raised" /\ err' = "StitchError"
    /\ UNCHANGED ytvars
    /\ UNCHANGED << url, hosted, faults, certainty, schema, l, maxzoom, tile, y, x,
                    r_array, t_array, output, tiles, i, log, files, stitched >>

Next ==
    \/ TestUrl
    \/ MakeTiles
    \/ UrlNormalize
    \/ ZoomProbe
    \/ GridProbe
    \/ Multistitch
    \/ SimpleFetch
    \/ CubemapToEquirectangular

Spec == Init /\ [][Next]_vars

\* the conversion runs in one thread, statement after statement: a step that
\* can be taken is taken
FairSpec == Spec /\ WF_vars(Next)

(***************************************************************************)
(* What the properties below read off a state.                              *)
(***************************************************************************)
\* the conversion went down the tiled path and is past get_max_zoom
InExport ==
    /\ tiles = <<>>
    /\ pc \notin {"test_url", "make_tiles", "url_normalize", "get_max_zoom"}
    /\ err # "ValueError"

\* the grids export has appended to output so far
GridOutput == IF InExport THEN output ELSE <<>>

ZoomLog == SelectSeq(log, LAMBDA e : e.by = "get_max_zoom")

\* the requests export made while its loop variable tile was f
GridLog(f) == SelectSeq(log, LAMBDA e : e.by = "export" /\ e.args[1] = f)

SimpleLog == SelectSeq(log, LAMBDA e : e.by = "export_simple")

\* the tile (f, z, row, col) of the schema is fetchable
FetchableTile(f, z, row, col) ==
    LET fm == Format(schema, <<f, z, row, col>>) IN fm.ok /\ Fetchable(fm.text)

\* the coordinates looked at to tell what a face exposes: every (row, col) a
\* hosted URL can have (a tile of a pyramid, a face image named by a digit, or
\* the conversion URL itself, whose row is at most 3 in SeedURLs)
UniCells == (0..Max(MaxRows - 1, 3)) \X (0..(Max(MaxCols, NumFaces) - 1))

\* the (row, col) the provider exposes on face f at the zoom level of the grid
Exposed(f) == { rc \in UniCells : FetchableTile(f, maxzoom, rc[1], rc[2]) }

\* the provider exposes exactly R rows and C columns of tiles on face f
ExposesExactly(f, R, C) == ((R = 0) <=> (C = 0)) /\ Exposed(f) = Rect(R, C)

\* export has returned, with a grid for face f
FaceReturned(f) == pc = "multistitch" /\ f < Len(GridOutput)

\* the answer did not arrive, or arrived and could not be read or stored
Faulted(e) ==
    \/ e.code = NoResponse
    \/ e.code = HTTP_OK /\ e.by \in {"export", "export_simple"} /\ e.file = 0

NoFaultOnFace(f) ==
    \A k \in 1..Len(log) :
        log[k].by = "export" /\ log[k].args[1] = f => ~Faulted(log[k])

\* grid g holds exactly R rows of C tiles, the tile at (row, col) being the
\* file made from the answer to the request for (f, maxzoom, row, col)
IsGridOf(g, f, R, C) ==
    /\ Len(g) = R
    /\ \A row \in 1..Len(g) :
        /\ Len(g[row]) = C
        /\ \A col \in 1..Len(g[row]) :
            /\ files[g[row][col]].name = <<f, maxzoom, row - 1, col - 1>>
            /\ log[files[g[row][col]].content].url
                 = Format(schema, <<f, maxzoom, row - 1, col - 1>>).text

(***************************************************************************)
(* C1: for a provider that exposes exactly R rows and C columns of tiles on *)
(* a face (and whose answers for that face all arrive), export returns for  *)
(* that face a grid of exactly R rows, each of length C, and issues exactly *)
(* R*(C+1)+1 requests during that face: one failing probe ending each row   *)
(* and one failing probe ending the face.                                   *)
(***************************************************************************)
C1_GridProbeCount ==
    \A f \in Faces :
        (FaceReturned(f) /\ schema.valid /\ NoFaultOnFace(f)) =>
            LET cells == Exposed(f)
                R == Cardinality({ rc[1] : rc \in cells })
                C == Cardinality({ rc[2] : rc \in cells })
            IN  cells = Rect(R, C) =>
                    /\ IsGridOf(output[f + 1], f, R, C)
                    /\ Len(GridLog(f)) = R * (C + 1) + 1

\* a face exposing 2 rows of 3 columns has been downloaded
C1_Witness ==
    \E f \in Faces :
        /\ FaceReturned(f) /\ schema.valid /\ NoFaultOnFace(f)
        /\ ExposesExactly(f, 2, 3)
        /\ IsGridOf(output[f + 1], f, 2, 3)
        /\ Len(GridLog(f)) = 9

(***************************************************************************)
(* C2: get_max_zoom probes the levels 1, 2, 3, ... in that order, each with *)
(* face 0, row 0, col 0, never going back, skipping or repeating a level;   *)
(* it returns k exactly when the probes of levels 1..k succeeded and the    *)
(* probe of level k+1 was the first to fail (a schema that cannot be        *)
(* formatted fails the probe of level 1 before any request), and it issues  *)
(* no probe after the first failure.                                        *)
(***************************************************************************)
C2_ZoomProbeOrder ==
    LET zs == ZoomLog IN
    /\ \A k \in 1..Len(zs) :
        /\ zs[k].args = <<0, k, 0, 0>>
        /\ zs[k].url = Format(schema, <<0, k, 0, 0>>).text
        /\ k < Len(zs) => zs[k].code = HTTP_OK
    /\ \A j \in 1..Len(log) : \A k \in 1..Len(log) :
        log[j].by = "get_max_zoom" /\ log[k].by = "export" => j < k
    /\ pc = "get_max_zoom" =>
        /\ l = Len(zs)
        /\ \A k \in 1..Len(zs) : zs[k].code = HTTP_OK
    /\ InExport =>
        IF schema.valid
        THEN /\ Len(zs) = maxzoom + 1
             /\ zs[maxzoom + 1].code # HTTP_OK
        ELSE zs = <<>> /\ maxzoom = 0

\* two levels answered and the third did not: get_max_zoom returned 2
C2_Witness ==
    /\ InExport
    /\ maxzoom = 2
    /\ Len(ZoomLog) = 3
    /\ ZoomLog[3].code # HTTP_OK

(***************************************************************************)
(* C3: when the verification fetch of url_normalize does not return 200,    *)
(* the acquisition ends with an error reported to the caller, no request    *)
(* follows the failed verification fetch and no stitcher is called.         *)
(***************************************************************************)
C3_UnreachableSourceFails ==
    (Len(log) >= 1 /\ log[1].by = "url_normalize" /\ log[1].code # HTTP_OK) =>
        /\ Len(log) = 1
        /\ calls = <<>>
        /\ pc # "done"

(***************************************************************************)
(* C4: for a URL that matches both a full-pyramid pattern and a simple      *)
(* six-face pattern the full-pyramid pattern wins: test_url returns the     *)
(* certainty of the full-pyramid pattern and make_tiles routes the URL to   *)
(* url_normalize / get_max_zoom / export, never to export_simple.           *)
(***************************************************************************)
MatchesBoth(u) ==
    SearchFull(u) /\ (SearchSimpleLetter(u) \/ SearchSimpleDigit(u))

C4_FullPatternWins ==
    MatchesBoth(url) =>
        /\ certainty \in {"unset", CERTAINTY_PROBABLE}
        /\ pc # "test_url" => certainty = REGEX_FULL[1].certainty
        /\ pc \notin {"test_url", "make_tiles"} =>
            /\ tiles = <<>>
            /\ pc # "export_simple"
            /\ err # "ValueError"
            /\ Len(log) >= 1 => log[1].by = "url_normalize"
            /\ \A k \in 1..Len(log) : log[k].by # "export_simple"
            /\ pc \in {"cubemap", "done"} => stitched.from = "multistitch"

\* the URL 1.jpg/1/2/3_4.jpg, which ^\d.jpg matches with certainty POSSIBLE,
\* was rated PROBABLE and has reached export
C4_Witness ==
    /\ url = URL_BOTH_DIGIT
    /\ MatchesBoth(url)
    /\ certainty = CERTAINTY_PROBABLE
    /\ pc = "export"
    /\ Len(log) >= 2

(***************************************************************************)
(* C5: a conversion URL that matches neither a full-pyramid nor a simple    *)
(* pattern makes the acquisition fail with ValueError before any request is *)
(* issued; no File record is created, no stitcher is called, and nothing    *)
(* further is done (no retry).                                              *)
(***************************************************************************)
MatchesNone(u) ==
    ~SearchFull(u) /\ ~SearchSimpleLetter(u) /\ ~SearchSimpleDigit(u)

C5_NoPatternFails ==
    MatchesNone(url) =>
        /\ log = <<>>
        /\ files = <<>>
        /\ calls = <<>>
        /\ pc \in {"test_url", "make_tiles", "raised"}
        /\ pc = "raised" => err = "ValueError" /\ ~ENABLED Next

C5_Witness ==
    /\ MatchesNone(url)
    /\ pc = "raised"
    /\ err = "ValueError"

(***************************************************************************)
(* C6: scenario A.  The provider answers 200 to the seed, hosts the zoom    *)
(* levels 0 and 1 and not 2, and on face 0 the tiles of rows 0-1 and cols   *)
(* 0-2 (no row 2); every answer arrives.  Then the acquisition takes the    *)
(* tiled path, get_max_zoom returns 1, and export returns six grids of      *)
(* which the first has 2 rows of 3 tiles.                                   *)
(***************************************************************************)
ScenarioAProviders ==
    { [zooms |-> {0, 1}, focus |-> 0, rows |-> 2, cols |-> 3, hole |-> NoHole,
       others |-> o, seedOK |-> TRUE, missing |-> NoFaces] : o \in BOOLEAN }

\* what such a provider hosts for the seed of the claim and for the amended one
ScenarioAHostedOriginal == { HostedURLs(URL_SCENARIO_A, p) : p \in ScenarioAProviders }

ScenarioAHostedPyramid == { HostedURLs(URL_PYRAMID, p) : p \in ScenarioAProviders }

\* the URL of tile (f, z, row, col) under the schema of seed
TileOf(seed, f, z, row, col) == Format(NormalizeText(seed), <<f, z, row, col>>).text

\* (the first tests follow from the last one and are only quicker to decide)
ScenarioA(seed, hostings) ==
    /\ url = seed
    /\ \A k \in 1..Len(log) : ~Faulted(log[k])
    /\ TileOf(seed, 0, 1, 1, 2) \in hosted
    /\ TileOf(seed, 0, 2, 0, 0) \notin hosted
    /\ TileOf(seed, 0, 1, 2, 0) \notin hosted
    /\ TileOf(seed, 0, 1, 0, 3) \notin hosted
    /\ hosted \in hostings

ScenarioAOutcome ==
    /\ pc \notin {"test_url", "make_tiles"} =>
        /\ pc # "export_simple"
        /\ tiles = <<>>
        /\ err # "ValueError"
    /\ InExport => maxzoom = 1
    /\ InExport /\ pc # "export" =>
        /\ Len(output) = NumFaces
        /\ IsGridOf(output[1], 0, 2, 3)
        /\ calls # <<>>
            => calls[1] = [fn |-> "multistitch",
                           images |-> [from |-> "export", images |-> output],
                           rotation |-> <<>>, properties |-> "unread"]

\* the claim as written, with the seed URL http://x/001/0_0.jpg
C6_ScenarioA_Original == ScenarioA(URL_SCENARIO_A, ScenarioAHostedOriginal) => ScenarioAOutcome

\* amended: with the seed URL http://x/0/0/0_0.jpg
C6_ScenarioA == ScenarioA(URL_PYRAMID, ScenarioAHostedPyramid) => ScenarioAOutcome

C6_Witness ==
    /\ ScenarioA(URL_PYRAMID, ScenarioAHostedPyramid)
    /\ pc = "multistitch"
    /\ maxzoom = 1
    /\ Len(output) = NumFaces
    /\ IsGridOf(output[1], 0, 2, 3)

(***************************************************************************)
(* C7: scenario B.  On the six-face path, when the six variants of the URL  *)
(* all answer 200 and every answer arrives, exactly six requests are made,  *)
(* one per letter of the face-letter string and in its order (frblud unless *)
(* the matched pattern gives another), each for the URL with the character  *)
(* five places from its end replaced by the letter; no other request is     *)
(* made, and the result is the six files made from the six answers.         *)
(***************************************************************************)
OnSimplePath == tiles # <<>>

\* v is u with the character five places from the end replaced by ch
IsFaceVariant(u, v, ch) ==
    /\ Len(v) = Len(u)
    /\ v[Len(u) - 4] = ch
    /\ \A j \in 1..Len(u) : j # Len(u) - 4 => v[j] = u[j]

\* every face image of the conversion URL answers 200 and no answer was lost
AllFacesAnswer ==
    /\ OnSimplePath
    /\ \A k \in 1..Len(tiles) :
        \A v \in hosted \cup {log[j].url : j \in 1..Len(log)} :
            IsFaceVariant(url, v, tiles[k]) => v \in hosted
    /\ \A k \in 1..Len(tiles) : \E v \in hosted : IsFaceVariant(url, v, tiles[k])
    /\ \A k \in 1..Len(log) : ~Faulted(log[k])

C7_SixFaceDownload ==
    AllFacesAnswer =>
        /\ tiles = IF SearchSimpleLetter(url) THEN <<"f","r","b","l","u","d">>
                   ELSE <<"0","1","2","3","4","5">>
        /\ Len(log) <= NumFaces
        /\ \A k \in 1..Len(log) :
            /\ log[k].by = "export_simple"
            /\ log[k].code = HTTP_OK
            /\ IsFaceVariant(url, log[k].url, tiles[k])
        /\ Len(files) = Len(log)
        /\ \A k \in 1..Len(files) : files[k].content = k
        /\ err = "none" \/ err = "StitchError"
        /\ pc # "export_simple" =>
            /\ Len(log) = NumFaces
            /\ stitched = [from |-> "export_simple", images |-> <<1, 2, 3, 4, 5, 6>>]

\* http://x/pano_f.jpg: six requests, ending with the one for http://x/pano_d.jpg
C7_Witness ==
    /\ AllFacesAnswer
    /\ url = URL_SIX_FACE
    /\ pc = "cubemap"
    /\ Len(log) = 6
    /\ log[6].url = <<"h","t","t","p",":","/","/","x","/","p","a","n","o","_","d",
                      ".","j","p","g">>
    /\ stitched.images = <<1, 2, 3, 4, 5, 6>>

(***************************************************************************)
(* C8: export_simple fails fast: the first face request that fails (the     *)
(* request raises, or the status is not 200) ends the acquisition with an   *)
(* error raised to the caller; no request follows it, nothing is returned   *)
(* and no stitcher is called.                                               *)
(***************************************************************************)
C8_SixFaceFailsFast ==
    \A k \in 1..Len(log) :
        (log[k].by = "export_simple" /\ log[k].code # HTTP_OK) =>
            /\ k = Len(log)
            /\ pc = "raised"
            /\ err = IF log[k].code = NoResponse THEN "TransportError"
                     ELSE "AssertionError"
            /\ calls = <<>>
            /\ stitched.from = "none"
            /\ ~ENABLED Next

\* the third face answered 404 after two faces were downloaded
C8_Witness ==
    /\ Len(log) = 3
    /\ log[3].by = "export_simple"
    /\ log[3].code = 404
    /\ Len(files) = 2
    /\ pc = "raised"

(***************************************************************************)
(* C9: in the zoom probe loop and in the row/column probe loops a transport *)
(* error on a probe is never taken as "tile absent": the probe is retried,  *)
(* or the acquisition fails with an error; it never ends a row, a face or   *)
(* the zoom search.  (Stated for the probes of tiles the provider hosts.)   *)
(***************************************************************************)
C9_TransientIsNotAbsence ==
    \A k \in 1..Len(log) :
        (/\ log[k].by \in {"get_max_zoom", "export"}
         /\ log[k].code = NoResponse
         /\ Fetchable(log[k].url)) =>
            IF k < Len(log)
            THEN log[k + 1].url = log[k].url
            ELSE \/ pc = "raised"
                 \/ /\ pc = log[k].by
                    /\ log[k].by = "get_max_zoom" => l = log[k].args[2] - 1
                    /\ log[k].by = "export" =>
                        GridArgs(tile, maxzoom, y, x) = log[k].args

(***************************************************************************)
(* C10: a request answered with a non-success status is never repeated: no  *)
(* URL is requested again after such an answer, and the answer is taken at  *)
(* once as absence: no file is made from it, the zoom search ends with it,  *)
(* and the row it was in gets no further column.                            *)
(***************************************************************************)
Refused(e) == e.code # HTTP_OK /\ e.code # NoResponse

C10_NoRetryAfterRefusal ==
    \A j \in 1..Len(log) :
        Refused(log[j]) =>
            /\ \A k \in (j + 1)..Len(log) :
                /\ log[k].url # log[j].url
                /\ log[j].by = "get_max_zoom" => log[k].by # "get_max_zoom"
                /\ log[j].by = "export" /\ log[k].by = "export" =>
                    ~(/\ log[k].args[1] = log[j].args[1]
                      /\ log[k].args[3] = log[j].args[3])
                /\ log[j].by \in {"url_normalize", "export_simple"} => FALSE
            /\ \A n \in 1..Len(files) : files[n].content # j
            /\ log[j].by = "get_max_zoom" => pc # "get_max_zoom"

\* a zoom probe was refused and the grid requests followed it
C10_Witness ==
    \E j \in 1..Len(log) :
        /\ Refused(log[j])
        /\ log[j].by = "get_max_zoom"
        /\ log[j].args[2] = 2
        /\ Len(log) >= j + 3
        /\ pc = "multistitch"

(***************************************************************************)
(* C11: the stitcher calls of an acquisition.                               *)
(***************************************************************************)
\* a request can still be issued
FetchEnabled == pc \in {"url_normalize", "get_max_zoom", "export", "export_simple"}

\* the exception was raised by the classification or by a download
DownloadFailed == err \in {"ValueError", "AssertionError", "TransportError", "StoreError"}

CubemapCalls == SelectSeq(calls, LAMBDA c : c.fn = "cubemap_to_equirectangular")

\* what the downloader returned: export's grids or export_simple's files
DownloaderResult ==
    [from |-> IF OnSimplePath THEN "export_simple" ELSE "export", images |-> output]

\* the rotation the caller gave in the properties read by the call c
CallersRotation(c) ==
    IF c.properties = "rotation" THEN GivenRotation ELSE <<0, 0, 0>>

\* C11 as stated: an acquisition that returns has made exactly one stitcher
\* call, cubemap_to_equirectangular, made when no request can follow, with
\* what the downloader returned and the caller's rotation (default (0,0,0));
\* an acquisition whose classification or download fails makes no call.
C11_OneStitcherCall_Original ==
    /\ pc = "done" =>
        /\ Len(calls) = 1
        /\ calls[1].fn = "cubemap_to_equirectangular"
        /\ calls[1].images = DownloaderResult
        /\ calls[1].rotation = CallersRotation(calls[1])
    /\ calls # <<>> => ~FetchEnabled
    /\ DownloadFailed => calls = <<>>

\* C11, amended: an acquisition that returns has made exactly one call of
\* cubemap_to_equirectangular, as its last stitcher call, when no request can
\* follow, with the caller's rotation (default (0,0,0)).  On the six-face path
\* it is the only stitcher call and receives the six files of export_simple;
\* on the tiled path exactly one call of multistitch precedes it, which
\* receives the six grids of export, and cubemap_to_equirectangular receives
\* what multistitch returned.  An acquisition whose classification or
\* download fails makes no stitcher call.
C11_OneStitcherCall ==
    /\ Len(CubemapCalls) <= 1
    /\ pc = "done" =>
        /\ Len(CubemapCalls) = 1
        /\ calls[Len(calls)].fn = "cubemap_to_equirectangular"
        /\ calls[Len(calls)].rotation = CallersRotation(calls[Len(calls)])
        /\ Len(output) = NumFaces
        /\ IF OnSimplePath
           THEN /\ Len(calls) = 1
                /\ calls[1].images = DownloaderResult
           ELSE /\ Len(calls) = 2
                /\ calls[1].fn = "multistitch"
                /\ calls[1].images = DownloaderResult
                /\ calls[2].images = [from |-> "multistitch", images |-> output]
    /\ calls # <<>> => ~FetchEnabled
    /\ DownloadFailed => calls = <<>>

\* a tiled acquisition with downloaded tiles and a rotation given by the
\* caller has returned
C11_Witness ==
    /\ pc = "done"
    /\ ~OnSimplePath
    /\ files # <<>>
    /\ Len(calls) = 2
    /\ calls[2].properties = "rotation"
    /\ calls[2].rotation = GivenRotation

(***************************************************************************)
(* C12: one File record per tile placed.                                    *)
(***************************************************************************)
\* the concatenation of the sequences of ss
RECURSIVE Flatten(_)
Flatten(ss) == IF ss = <<>> THEN <<>> ELSE Head(ss) \o Flatten(Tail(ss))

\* the files placed so far, in the order of their placing: in the grids
\* returned, in the rows of the grid being built and in the row being built,
\* or in the list of export_simple
PlacedTiles ==
    IF OnSimplePath THEN output
    ELSE Flatten([f \in 1..Len(output) |-> Flatten(output[f])])
            \o Flatten(t_array) \o r_array

\* C12: at every point the File records created are exactly the tiles placed
\* so far, one record per tile; every record was made from one answer with
\* status 200 to a request of export or export_simple, no answer made two
\* records, and no record was made from the reachability check, a zoom probe
\* or a failed probe.
C12_OneFilePerTile ==
    /\ PlacedTiles = [n \in 1..Len(files) |-> n]
    /\ \A n \in 1..Len(files) :
        /\ files[n].id = n
        /\ files[n].content \in 1..Len(log)
        /\ log[files[n].content].file = n
    /\ \A k \in 1..Len(log) :
        IF log[k].file # 0
        THEN /\ log[k].by \in {"export", "export_simple"}
             /\ log[k].code = HTTP_OK
             /\ log[k].file \in 1..Len(files)
             /\ files[log[k].file].content = k
        ELSE \A n \in 1..Len(files) : files[n].content # k

\* a pyramid was downloaded after a successful reachability check and zoom
\* probe: more requests than records
C12_Witness ==
    /\ pc = "multistitch"
    /\ Len(files) = 6
    /\ maxzoom = 1
    /\ log[1].code = HTTP_OK
    /\ Len(log) > Len(files) + 8
    /\ Len(PlacedTiles) = 6

(***************************************************************************)
(* C13: the shape of a returned grid.                                       *)
(***************************************************************************)
\* the file at (row, col) of grid g, counted from 1, was made from the answer
\* to the request for tile (f, z, row - 1, col - 1)
TileAt(g, row, col, f, z) ==
    /\ files[g[row][col]].name = <<f, z, row - 1, col - 1>>
    /\ log[files[g[row][col]].content].args = <<f, z, row - 1, col - 1>>

\* the records made while export's loop variable tile was f
FilesOfFace(f) == { n \in 1..Len(files) : files[n].name[1] = f }

\* C13: in every grid export has returned, whatever the provider answered and
\* whichever requests failed: every stored row is non-empty, the rows are the
\* rows 0..n-1 of the face and the entries of a row its columns 0..m-1, in
\* order and without gap (rows may differ in length); a face of which any
\* tile was downloaded has its tile (0, 0) at row 0, column 0, and every tile
\* downloaded for the face is in its grid.
C13_GridContiguous ==
    \A f \in Faces :
        f < Len(GridOutput) =>
            LET g == output[f + 1] IN
            /\ \A row \in 1..Len(g) :
                /\ g[row] # <<>>
                /\ \A col \in 1..Len(g[row]) : TileAt(g, row, col, f, maxzoom)
            /\ FilesOfFace(f) # {} => g # <<>> /\ TileAt(g, 1, 1, f, maxzoom)
            /\ FilesOfFace(f)
                 = UNION { { g[row][col] : col \in 1..Len(g[row]) } : row \in 1..Len(g) }

\* a returned grid of two rows of different lengths
C13_Witness ==
    \E f \in Faces :
        /\ FaceReturned(f)
        /\ Len(output[f + 1]) = 2
        /\ Len(output[f + 1][1]) = 1
        /\ Len(output[f + 1][2]) = 3

(***************************************************************************)
(* C14: what export returns.                                                *)
(***************************************************************************)
\* export has returned
ExportReturned == InExport /\ pc # "export"

\* (row, col) comes before (row2, col2) in row-major order
RowMajorBefore(a, b) == a[3] < b[3] \/ (a[3] = b[3] /\ a[4] < b[4])

\* C14: export returns exactly six grids whatever the provider answers, and
\* has appended one grid per face finished while it runs; the grid at
\* position f holds only files made from requests with face index f, all at
\* the zoom level get_max_zoom returned (the number of its successful
\* probes), in row-major order, which is also the order they were fetched
\* in; a face no tile was downloaded for has the empty grid at its position.
C14_SixGridsInFaceOrder ==
    /\ ExportReturned => Len(output) = NumFaces
    /\ InExport /\ pc = "export" => Len(output) = tile /\ tile < NumFaces
    /\ InExport => maxzoom = Len(SelectSeq(ZoomLog, LAMBDA e : e.code = HTTP_OK))
    /\ \A f \in Faces :
        f < Len(GridOutput) =>
            LET ts == Flatten(output[f + 1]) IN
            /\ \A k \in 1..Len(ts) :
                /\ files[ts[k]].name[1] = f
                /\ files[ts[k]].name[2] = maxzoom
                /\ log[files[ts[k]].content].args = files[ts[k]].name
                /\ k < Len(ts) =>
                    /\ RowMajorBefore(files[ts[k]].name, files[ts[k + 1]].name)
                    /\ ts[k] < ts[k + 1]
            /\ FilesOfFace(f) = {} => output[f + 1] = <<>>

\* export returned an empty grid for face 0 and a 2 x 3 grid for face 5
C14_Witness ==
    /\ ExportReturned
    /\ Len(output) = 6
    /\ output[1] = <<>>
    /\ Len(output[6]) = 2
    /\ Len(output[6][1]) = 3
    /\ Len(output[6][2]) = 3

(***************************************************************************)
(* C15: no tile on any face.                                                *)
(***************************************************************************)
\* the seed was reachable, and on each of the six faces the request for the
\* tile at row 0, column 0 was answered with a status other than 200
NoBaseTileAnywhere ==
    /\ ExportReturned
    /\ schema.valid
    /\ \A f \in Faces :
        \E k \in 1..Len(log) :
            /\ log[k].by = "export"
            /\ log[k].args = <<f, maxzoom, 0, 0>>
            /\ Refused(log[k])

\* C15: when the grid probe finds no tile at (row 0, col 0) on all six faces,
\* the acquisition ends with an error raised to the caller and no stitcher is
\* called with the empty grids.
C15_NoTilesFound ==
    NoBaseTileAnywhere =>
        /\ calls = <<>>
        /\ pc \notin {"cubemap", "done"}

(***************************************************************************)
(* C16: the value of get_max_zoom.                                          *)
(***************************************************************************)
\* the tile (face 0, row 0, col 0) of zoom level lv is fetchable
ZoomFetchable(lv) == FetchableTile(0, lv, 0, 0)

\* the levels looked at: one more than any level a provider hosts
ZoomLevels == 0..(MaxZoom + 1)

\* get_max_zoom has returned, every one of its probes having been answered
ZoomProbed ==
    /\ InExport
    /\ schema.valid
    /\ \A k \in 1..Len(log) : log[k].by = "get_max_zoom" => ~Faulted(log[k])

TileCount ==
    Cardinality({ a \in Faces \X ZoomLevels \X UniCells :
                    FetchableTile(a[1], a[2], a[3][1], a[3][2]) })

\* the loops export and get_max_zoom have left: the zoom probe loop, one
\* column loop per row tried (the rows stored and the empty row that ends
\* each face) and one row loop per face
LoopExits == 1 + (Len(Flatten(output)) + Len(output)) + Len(output)

\* when export returns, the requests made are at most the provider's tiles
\* plus one per loop left
FetchesBounded ==
    (pc = "multistitch" /\ schema.valid) => Len(log) <= TileCount + LoopExits

\* C17: a tiled acquisition, once routed to url_normalize, reaches the
\* return of export (the zoom probe loop, every column loop and every row
\* loop end) against every provider of finitely many tiles, and has then
\* made at most as many requests as the provider has tiles plus one per loop
\* left.
C17_TiledDownloadTerminates ==
    /\ (pc = "url_normalize") ~> (pc = "multistitch")
    /\ []FetchesBounded

\* export returned after downloading a pyramid of two levels
C17_Witness ==
    /\ pc = "multistitch"
    /\ schema.valid
    /\ maxzoom = 2
    /\ Len(files) >= 6
    /\ TileCount >= 12
    /\ Len(log) <= TileCount + LoopExits

(***************************************************************************)
(* C18: get_max_zoom and export never raise.                                *)
(***************************************************************************)
\* the request did not yield a tile: no answer, a status other than 200, or
\* an answer that could not be read or stored
FailedProbe(e) == e.code # HTTP_OK \/ Faulted(e)

\* the probe that follows a failed probe for tile a in export: the first
\* column of the next row when the row had a tile, the next face otherwise
AfterFailed(a) ==
    IF a[4] > 0 THEN <<a[1], a[2], a[3] + 1, 0>> ELSE <<a[1] + 1, a[2], 0, 0>>

\* the rows stored so far for face f
RowsOfFace(f) == IF f < Len(output) THEN output[f + 1] ELSE t_array

\* C18: no exception leaves get_max_zoom or export.  A probe of get_max_zoom
\* that fails in any way is its last, and the level reached is returned.  A
\* probe of export that fails in any way (no answer, a status other than
\* 200, a body that cannot be read or stored) ends its row, which keeps the
\* tiles it had, and also its face when the row had none; export goes on
\* with the next row or face.  A schema no URL can be built from makes every
\* probe fail before a request: level 0 and six empty grids.
C18_ProbesNeverRaise ==
    /\ (pc = "raised" /\ ~OnSimplePath) =>
        \/ err = "ValueError" /\ log = <<>>
        \/ err = "StitchError" /\ calls # <<>>
    /\ \A k \in 1..Len(log) :
        (log[k].by = "get_max_zoom" /\ FailedProbe(log[k])) =>
            /\ pc # "get_max_zoom"
            /\ maxzoom = log[k].args[2] - 1
            /\ \A j \in (k + 1)..Len(log) : log[j].by = "export"
    /\ \A k \in 1..Len(log) :
        (log[k].by = "export" /\ FailedProbe(log[k])) =>
            LET a == log[k].args IN
            /\ IF k < Len(log)
               THEN log[k + 1].by = "export" /\ log[k + 1].args = AfterFailed(a)
               ELSE IF AfterFailed(a)[1] = NumFaces
               THEN ExportReturned
               ELSE pc = "export" /\ <<tile, maxzoom, y, x>> = AfterFailed(a)
            /\ IF a[4] = 0
               THEN Len(output) > a[1] /\ Len(output[a[1] + 1]) = a[3]
               ELSE /\ Len(RowsOfFace(a[1])) > a[3]
                    /\ Len(RowsOfFace(a[1])[a[3] + 1]) = a[4]
    /\ (InExport /\ ~schema.valid) =>
        /\ \A k \in 1..Len(log) : log[k].by = "url_normalize"
        /\ maxzoom = 0
        /\ \A f \in 1..Len(output) : output[f] = <<>>
        /\ pc = "export" => Len(output) = tile

\* a tile of face 0 was answered with 200 but could not be stored; export
\* went on with the next row and returned
C18_Witness ==
    \E k \in 1..Len(log) :
        /\ log[k].by = "export"
        /\ log[k].code = HTTP_OK
        /\ log[k].file = 0
        /\ log[k].args[4] > 0
        /\ k < Len(log)
        /\ pc = "multistitch"
        /\ Len(output[1]) >= 1

(***************************************************************************)
(* pix360_youtube: YouTubeDownloader and YouTubeConverter.                  *)
(***************************************************************************)
\* r"^https://(www\.)?youtube.com" matched from index k on, after the
\* optional group: the dot before com is not escaped and takes any character
\* but a newline
YouTubeHostAt(s, k) ==
    /\ HasAt(s, k, <<"y","o","u","t","u","b","e">>)
    /\ k + 7 <= Len(s)
    /\ s[k + 7] # "\n"
    /\ HasAt(s, k + 8, <<"c","o","m">>)

\* bool(re.search(regex, url)) for the one entry of YouTubeDownloader.REGEX
YouTubeSearch(s) ==
    /\ HasAt(s, 1, <<"h","t","t","p","s",":","/","/">>)
    /\ \/ HasAt(s, 9, <<"w","w","w",".">>) /\ YouTubeHostAt(s, 13)
       \/ YouTubeHostAt(s, 9)

\* YouTubeDownloader.test_url
YouTubeTestUrlOf(s) ==
    IF YouTubeSearch(s) THEN CERTAINTY_PROBABLE ELSE CERTAINTY_UNSUPPORTED

YT_WWW == <<"h","t","t","p","s",":","/","/","w","w","w",".","y","o","u","t","u","b","e",".","c","o","m","/","w">>

YT_BARE == <<"h","t","t","p","s",":","/","/","y","o","u","t","u","b","e",".","c","o","m","/","w">>

YT_ANY_CHAR == <<"h","t","t","p","s",":","/","/","y","o","u","t","u","b","e","-","c","o","m">>

YT_HTTP == <<"h","t","t","p",":","/","/","y","o","u","t","u","b","e",".","c","o","m","/","w">>

YT_MOBILE == <<"h","t","t","p","s",":","/","/","m",".","y","o","u","t","u","b","e",".","c","o","m","/","w">>

YouTubeURLs == { YT_WWW, YT_BARE, YT_ANY_CHAR, YT_HTTP, YT_MOBILE }

\* the names yt-dlp may leave in outdir: merged videos, a stream that was not
\* merged, an unfinished download
OutNames == { <<"v",".","m","p","4">>, <<"w",".","m","p","4">>, <<"v",".","w","e","b","m">>, <<"v",".","m","p","4",".","p","a","r","t">>, <<"v",".","m","4","a">> }

\* the names pathlib.Path(outdir).glob("*.mp4") yields
GlobMp4(dir) ==
    { n \in dir : Len(n) >= 4 /\ HasAt(n, Len(n) - 3, <<".","m","p","4">>) }

\* the File records the conversion has from earlier attempts
MaxEarlier == 1

EarlierContent == <<"earlier">>

EarlierFile(k, marked) ==
    [id |-> k, content |-> EarlierContent, name |-> "result.mp4",
     mime_type |-> "video/mp4", is_result |-> marked]

YouTubeInit ==
    /\ url \in YouTubeURLs
    /\ \E n \in 0..MaxEarlier : \E marked \in BOOLEAN :
          files = [k \in 1..n |-> EarlierFile(k, marked)]
    /\ pc = "yt_test_url"
    /\ certainty = "unset"
    /\ hosted = {}
    /\ faults = 0
    /\ schema = NoSchema
    /\ l = 0
    /\ maxzoom = 0
    /\ tile = 0
    /\ y = 0
    /\ x = 0
    /\ r_array = <<>>
    /\ t_array = <<>>
    /\ output = <<>>
    /\ tiles = <<>>
    /\ i = 1
    /\ log = <<>>
    /\ calls = <<>>
    /\ stitched = [from |-> "none", images |-> <<>>]
    /\ err = "none"
    /\ outdir = {}
    /\ file = NoFile
    /\ returned = 0

\* what YouTubeConverter never touches
krvars ==
    << hosted, faults, schema, l, maxzoom, tile, y, x, r_array, t_array, output,
       tiles, i, log, calls, stitched >>

\* YouTubeDownloader.test_url, asked before the conversion is processed
YouTubeTestUrl ==
    /\ pc = "yt_test_url"
    /\ certainty' = YouTubeTestUrlOf(url)
    /\ pc' = "yt_download"
    /\ UNCHANGED << url, files, err, outdir, file, returned >>
    /\ UNCHANGED krvars

\* download lines 88-98: ydl.download([self.conversion.url]) fills outdir and
\* returns, or raises; leaving the with block by the exception removes outdir
YdlDownload ==
    /\ pc = "yt_download"
    /\ \/ /\ outdir' \in SUBSET OutNames
          /\ pc' = "yt_create"
          /\ UNCHANGED err
       \/ /\ outdir' = {}
          /\ pc' = "raised"
          /\ err' = "DownloadError"
    /\ UNCHANGED << url, certainty, files, file, returned >>
    /\ UNCHANGED krvars

\* download lines 101-111: next() of the glob raises StopIteration when no
\* name ends in .mp4 and yields any one of them otherwise; open, read or
\* File.objects.create may raise; the temporary directory is removed on the
\* way out.  A created File has is_result False until it is marked.
CreateFile ==
    /\ pc = "yt_create"
    /\ IF GlobMp4(outdir) = {}
       THEN /\ pc' = "raised"
            /\ err' = "StopIteration"
            /\ UNCHANGED << files, file >>
       ELSE \E n \in GlobMp4(outdir) :
               \/ /\ pc' = "raised"
                  /\ err' = "StoreError"
                  /\ UNCHANGED << files, file >>
               \/ /\ files' = Append(files,
                        [id |-> Len(files) + 1, content |-> n,
                         name |-> "result.mp4", mime_type |-> "video/mp4",
                         is_result |-> FALSE])
                  /\ file' = [id |-> Len(files) + 1, is_result |-> FALSE]
                  /\ pc' = "yt_mark"
                  /\ UNCHANGED err
    /\ outdir' = {}
    /\ UNCHANGED << url, certainty, returned >>
    /\ UNCHANGED krvars

MarkResultSkipped ==
    /\ pc = "yt_mark"
    /\ pc' = "yt_save"
    /\ UNCHANGED << url, certainty, files, err, outdir, file, returned >>
    /\ UNCHANGED krvars

\* convert line 73: file.is_result = True
MarkResult ==
    /\ pc = "yt_mark"
    /\ file' = [file EXCEPT !.is_result = TRUE]
    /\ pc' = "yt_save"
    /\ UNCHANGED << url, certainty, files, err, outdir, returned >>
    /\ UNCHANGED krvars

\* convert lines 74-75: file.save() writes the object to its record, or
\* raises; return file
SaveFile ==
    /\ pc = "yt_save"
    /\ \/ /\ files' = [files EXCEPT ![file.id].is_result = file.is_result]
          /\ returned' = file.id
          /\ pc' = "done"
          /\ UNCHANGED err
       \/ /\ pc' = "raised"
          /\ err' = "SaveError"
          /\ UNCHANGED << files, returned >>
    /\ UNCHANGED << url, certainty, outdir, file >>
    /\ UNCHANGED krvars

YouTubeNext ==
    \/ YouTubeTestUrl
    \/ YdlDownload
    \/ CreateFile
    \/ MarkResult
    \/ SaveFile

YouTubeSpec == YouTubeInit /\ [][YouTubeNext]_vars

(***************************************************************************)
(* C19: a YouTube conversion that returns has created exactly one File for  *)
(* the conversion, and that File was marked is_result and saved before it   *)
(* was returned; when ydl.download raises, or leaves no .mp4 file, the      *)
(* exception reaches the caller and no File is created or marked.           *)
(***************************************************************************)
\* the File records this conversion run created
CreatedFiles == { k \in 1..Len(files) : files[k].content # EarlierContent }

C19_Returned ==
    /\ returned # 0 => pc = "done"
    /\ pc = "done" =>
        /\ CreatedFiles = {returned}
        /\ files[returned].id = returned
        /\ files[returned].is_result
        /\ files[returned].mime_type = "video/mp4"
        /\ GlobMp4({files[returned].content}) # {}
        /\ file = [id |-> returned, is_result |-> TRUE]
        /\ err = "none"

C19_Propagated ==
    err \in {"DownloadError", "StopIteration"} =>
        /\ pc = "raised"
        /\ CreatedFiles = {}
        /\ file = NoFile
        /\ returned = 0

C19_Step ==
    /\ (pc = "yt_create" /\ GlobMp4(outdir) = {}) =>
            pc' = "raised" /\ err' = "StopIteration"
    /\ Len(files') >= Len(files)
    /\ \A k \in 1..Len(files) :
            files[k].content = EarlierContent => files'[k] = files[k]

\* C19: the three parts above, in every state and at every step
C19_YouTubeConvert ==
    /\ [](C19_Returned /\ C19_Propagated)
    /\ [][C19_Step]_vars

\* a conversion with an earlier File returned a second one, marked and saved,
\* made from one of two .mp4 files
C19_Witness ==
    /\ pc = "done"
    /\ returned = 2
    /\ ~files[1].is_result
    /\ files[2].is_result
    /\ files[2].content = <<"w",".","m","p","4">>

=============================================================================
